---- MODULE Spec2Model ----
(***************************************************************************)
(* Datapoint codec of knx/dpt/types.go: the Pack and Unpack methods of the *)
(* datapoint types 1.001, 1.002, 1.003, 1.009, 1.010 (bool) and 5.001,     *)
(* 5.003, 5.004, 9.001, 9.004 (float32).                                   *)
(*                                                                         *)
(* A float32 is modelled bit-exactly as a sign, a 24 bit significand and   *)
(* a binary exponent; multiplication and division round to nearest, ties   *)
(* to even, as IEEE 754 single precision does.  All intermediate integers  *)
(* stay below 2^31.  Subnormals, infinities and NaN are outside the model: *)
(* no value handled here is smaller than 2^-7 or larger than 2^27.         *)
(***************************************************************************)
EXTENDS Integers, Sequences, FiniteSets, TLC

VARIABLES dpt, val, op, data, err, out

vars == <<dpt, val, op, data, err, out>>

----------------------------------------------------------------------------
(* float32 arithmetic                                                      *)

Two11 == 2^11
Two12 == 2^12
Two23 == 2^23
Two24 == 2^24

\* value = (-1)^neg * man * 2^exp, man = 0 or 2^23 <= man < 2^24
F32Zero == [neg |-> FALSE, man |-> 0, exp |-> 0]

RECURSIVE F32Norm(_, _, _)
F32Norm(neg, m, e) ==
    IF m = 0 THEN F32Zero
    ELSE IF m < Two23 THEN F32Norm(neg, 2 * m, e - 1)
    ELSE [neg |-> neg, man |-> m, exp |-> e]

\* conversion of an integer |n| < 2^24 to float32 (exact)
F32FromInt(n) == IF n < 0 THEN F32Norm(TRUE, 0 - n, 0) ELSE F32Norm(FALSE, n, 0)

\* q with remainder r out of a unit of 2*half: round to nearest, ties to even
F32Round(neg, q, r, half, e) ==
    LET up == (r > half) \/ (r = half /\ q % 2 = 1)
        q1 == IF up THEN q + 1 ELSE q
    IN  IF q1 = Two24 THEN [neg |-> neg, man |-> Two23, exp |-> e + 1]
        ELSE [neg |-> neg, man |-> q1, exp |-> e]

F32Mul(a, b) ==
    IF a.man = 0 \/ b.man = 0 THEN F32Zero
    ELSE
    LET a1 == a.man \div Two12
        a0 == a.man % Two12
        b1 == b.man \div Two12
        b0 == b.man % Two12
        mid == a1 * b0 + a0 * b1
        t == a0 * b0 + (mid % Two12) * Two12
        lo == t % Two24
        hi == a1 * b1 + (mid \div Two12) + (t \div Two24)
        neg == (a.neg # b.neg)
        e == a.exp + b.exp
    IN  \* the exact product is hi * 2^24 + lo, in [2^46, 2^48)
        IF hi >= Two23
        THEN F32Round(neg, hi, lo, Two23, e + 24)
        ELSE F32Round(neg, 2 * hi + (lo \div Two23), lo % Two23, 2^22, e + 23)

\* n further quotient bits of r / d by shift and subtract; <<quotient, remainder>>
RECURSIVE F32LongDiv(_, _, _, _)
F32LongDiv(q, r, d, n) ==
    IF n = 0 THEN <<q, r>>
    ELSE IF 2 * r >= d THEN F32LongDiv(2 * q + 1, 2 * r - d, d, n - 1)
    ELSE F32LongDiv(2 * q, 2 * r, d, n - 1)

F32Div(a, b) ==
    IF a.man = 0 THEN F32Zero
    ELSE
    LET neg == (a.neg # b.neg)
        ge == a.man >= b.man
        qr == IF ge THEN F32LongDiv(1, a.man - b.man, b.man, 23)
              ELSE F32LongDiv(0, a.man, b.man, 24)
        e == IF ge THEN a.exp - b.exp - 23 ELSE a.exp - b.exp - 24
    IN  \* remainder qr[2] < b.man: compare 2 * remainder with b.man
        F32Round(neg, qr[1], 2 * qr[2], b.man, e)

\* magnitude comparison and the ordering of float32 values
F32MagLess(a, b) ==
    IF b.man = 0 THEN FALSE
    ELSE IF a.man = 0 THEN TRUE
    ELSE a.exp < b.exp \/ (a.exp = b.exp /\ a.man < b.man)

F32Less(a, b) ==
    IF a.neg /\ ~b.neg THEN TRUE
    ELSE IF ~a.neg /\ b.neg THEN FALSE
    ELSE IF a.neg THEN F32MagLess(b, a)
    ELSE F32MagLess(a, b)

F32Leq(a, b) == ~F32Less(b, a)

\* the constants the datapoint types compare and scale with
F32_100 == F32FromInt(100)
F32_255 == F32FromInt(255)
F32_360 == F32FromInt(360)
F32_Minus273 == F32FromInt(-273)
F32_670760 == F32FromInt(670760)

\* conversion to an integer: the fraction is discarded (truncation toward zero)
F32Trunc(a) ==
    LET mag == IF a.exp >= 0 THEN a.man * 2^(a.exp)
               ELSE IF a.exp <= -24 THEN 0
               ELSE a.man \div 2^(0 - a.exp)
    IN  IF a.neg THEN 0 - mag ELSE mag

----------------------------------------------------------------------------
(* inputs                                                                  *)

\* longest buffer handed to Unpack
MaxLen == 3

\* largest numerator of the quarter-unit grid of values handed to Pack
MaxQuarter == 1460

Bytes == 0 .. 255

BoolTypes == {"1.001", "1.002", "1.003", "1.009", "1.010"}
ScaledTypes == {"5.001", "5.003", "5.004"}
FloatTypes == {"9.001", "9.004"}
DPTs == BoolTypes \cup ScaledTypes \cup FloatTypes

\* the fixed wire width of a type in bytes
Width(t) == IF t \in FloatTypes THEN 2 ELSE 1

\* first and second byte of the two-byte buffers: zero, the smallest step,
\* both ends of the Float16 range and the neighbours of -273 and 0
F16High == {0, 7, 8, 15, 120, 127, 128, 135, 160, 161, 248, 255}
F16Low == {0, 1, 85, 86, 254, 255}

ZeroBuffer(n) == [i \in 1 .. n |-> 0]

\* every buffer of the type's width (two-byte ones sampled) and one buffer
\* of every other length up to MaxLen
Buffers(t) ==
    (IF Width(t) = 1 THEN { <<b>> : b \in Bytes }
     ELSE { <<h, l>> : h \in F16High, l \in F16Low })
    \cup { ZeroBuffer(n) : n \in 0 .. MaxLen }

\* the value q/4 as a float32 (exact)
Quarter(q) == IF q < 0 THEN F32Norm(TRUE, 0 - q, -2) ELSE F32Norm(FALSE, q, -2)

QuarterGrid == { Quarter(q) : q \in -8 .. MaxQuarter }

FloatGrid ==
    { F32FromInt(n) : n \in {-300000, -274, -273, -272, -1, 0, 1, 100,
                             670759, 670760, 670761, 700000} }

PackInputs(t) == IF t \in FloatTypes THEN FloatGrid ELSE QuarterGrid

----------------------------------------------------------------------------
(* primitive encoders                                                      *)

packB1(b) == << IF b THEN 1 ELSE 0 >>

\* [err, val]: the error returned and the content of the target afterwards
unpackB1(buf, target) ==
    IF Len(buf) # 1 THEN [err |-> "LengthError", val |-> target]
    ELSE [err |-> "nil", val |-> (buf[1] % 2 = 1)]

packU8(v) == << v >>

unpackU8(buf, target) ==
    IF Len(buf) # 1 THEN [err |-> "LengthError", val |-> target]
    ELSE [err |-> "nil", val |-> buf[1]]

\* 0.01 as a float32 (0x3C23D70A)
F32Hundredth == [neg |-> FALSE, man |-> 10737418, exp |-> -30]

\* integer halving that discards the fraction
HalfTowardZero(m) == IF m < 0 THEN 0 - ((0 - m) \div 2) ELSE m \div 2

\* smallest exponent for which the mantissa fits in [-2048, 2047]
RECURSIVE F16Fit(_, _)
F16Fit(m, e) ==
    IF m > 2047 \/ m < -2048 THEN F16Fit(HalfTowardZero(m), e + 1)
    ELSE <<m, e>>

packF16(f) ==
    LET me == F16Fit(F32Trunc(F32Mul(f, F32_100)), 0)
        m == me[1]
        e == me[2]
        sign == IF m < 0 THEN 1 ELSE 0
        mant == IF m < 0 THEN m + Two11 ELSE m
    IN  << sign * 128 + (e % 16) * 8 + (mant \div 256), mant % 256 >>

unpackF16(buf, target) ==
    IF Len(buf) # 2 THEN [err |-> "LengthError", val |-> target]
    ELSE
    LET mant == (buf[1] % 8) * 256 + buf[2]
        m == IF buf[1] >= 128 THEN mant - Two11 ELSE mant
        e == (buf[1] \div 8) % 16
    IN  [err |-> "nil",
         val |-> F32Mul(F32Mul(F32FromInt(m), F32Hundredth), F32FromInt(2^e))]

----------------------------------------------------------------------------
(* datapoint types                                                         *)

DPT_1001_Pack(d) == packB1(d)
DPT_1001_Unpack(d, buf) == unpackB1(buf, d)

DPT_1002_Pack(d) == packB1(d)
DPT_1002_Unpack(d, buf) == unpackB1(buf, d)

DPT_1003_Pack(d) == packB1(d)
DPT_1003_Unpack(d, buf) == unpackB1(buf, d)

DPT_1009_Pack(d) == packB1(d)
DPT_1009_Unpack(d, buf) == unpackB1(buf, d)

\* mutant: the polarity of Start/Stop inverted
DPT_1010_Pack_Inverted(d) == packB1(~d)

DPT_1010_Pack(d) == packB1(d)
DPT_1010_Unpack(d, buf) == unpackB1(buf, d)

\* the constant 2.55 converted to float32 (0x40233333)
F32_2_55 == [neg |-> FALSE, man |-> 10695475, exp |-> -22]

DPT_5001_Pack(d) ==
    IF F32Leq(d, F32Zero) THEN packU8(0)
    ELSE IF F32Leq(F32_100, d) THEN packU8(255)
    ELSE packU8(F32Trunc(F32Mul(d, F32_2_55)))

DPT_5001_Unpack(d, buf) ==
    LET r == unpackU8(buf, 0)
    IN  IF r.err # "nil" THEN [err |-> r.err, val |-> d]
        ELSE [err |-> "nil", val |-> F32Div(F32FromInt(r.val), F32_2_55)]

DPT_5003_Pack(d) ==
    LET v1 == IF F32Less(d, F32Zero) THEN F32Zero ELSE d
        v2 == IF F32Less(F32_360, v1) THEN F32_360 ELSE v1
        v3 == F32Div(v2, F32_360)
        v4 == F32Mul(v3, F32_255)
    IN  packU8(F32Trunc(v4))

DPT_5003_Unpack(d, buf) ==
    LET r == unpackU8(buf, 0)
    IN  IF r.err = "nil"
        THEN LET value == F32Div(F32Mul(F32FromInt(r.val), F32_360),
                                 F32_255)
             IN  IF F32Less(F32_360, value)
                 THEN [err |-> "RangeError", val |-> d]
                 ELSE [err |-> "nil", val |-> value]
        ELSE [err |-> "nil", val |-> d]

\* mutant: clipped to 100 like a percentage
DPT_5004_Pack_Clip100(d) ==
    LET v1 == IF F32Less(d, F32Zero) THEN F32Zero ELSE d
        v2 == IF F32Less(F32_100, v1) THEN F32_100 ELSE v1
    IN  packU8(F32Trunc(v2))

DPT_5004_Pack(d) ==
    LET v1 == IF F32Less(d, F32Zero) THEN F32Zero ELSE d
        v2 == IF F32Less(F32_255, v1) THEN F32_255 ELSE v1
    IN  packU8(F32Trunc(v2))

DPT_5004_Unpack(d, buf) ==
    LET r == unpackU8(buf, 0)
    IN  IF r.err = "nil"
        THEN LET value == F32FromInt(r.val)
             IN  IF F32Less(F32_255, value)
                 THEN [err |-> "RangeError", val |-> d]
                 ELSE [err |-> "nil", val |-> value]
        ELSE [err |-> "nil", val |-> d]

\* mutant: the lower clip is missing
DPT_9001_Pack_NoLowerClip(d) ==
    LET v2 == IF F32Less(F32_670760, d) THEN F32_670760 ELSE d
    IN  packF16(v2)

DPT_9001_Pack(d) ==
    LET v1 == IF F32Less(d, F32_Minus273) THEN F32_Minus273 ELSE d
        v2 == IF F32Less(F32_670760, v1) THEN F32_670760 ELSE v1
    IN  packF16(v2)

\* mutant: the value is stored before the range is checked
DPT_9001_Unpack_StoreFirst(d, buf) ==
    LET r == unpackF16(buf, F32Zero)
    IN  IF r.err = "nil"
        THEN IF F32Less(r.val, F32_Minus273)
             THEN [err |-> "RangeError", val |-> r.val]
             ELSE IF F32Less(F32_670760, r.val)
             THEN [err |-> "RangeError", val |-> r.val]
             ELSE [err |-> "nil", val |-> r.val]
        ELSE [err |-> "nil", val |-> d]

DPT_9001_Unpack(d, buf) ==
    LET r == unpackF16(buf, F32Zero)
    IN  IF r.err = "nil"
        THEN IF F32Less(r.val, F32_Minus273)
             THEN [err |-> "RangeError", val |-> d]
             ELSE IF F32Less(F32_670760, r.val)
             THEN [err |-> "RangeError", val |-> d]
             ELSE [err |-> "nil", val |-> r.val]
        ELSE [err |-> "nil", val |-> d]

DPT_9004_Pack(d) ==
    LET v1 == IF F32Less(d, F32Zero) THEN F32Zero ELSE d
        v2 == IF F32Less(F32_670760, v1) THEN F32_670760 ELSE v1
    IN  packF16(v2)

DPT_9004_Unpack(d, buf) ==
    LET r == unpackF16(buf, F32Zero)
    IN  IF r.err = "nil"
        THEN IF F32Less(F32_670760, r.val)
             THEN [err |-> "RangeError", val |-> d]
             ELSE [err |-> "nil", val |-> r.val]
        ELSE [err |-> "nil", val |-> d]

----------------------------------------------------------------------------
(* the state machine: one datapoint value and the calls made on it         *)

\* the zero value of the type
ZeroValue(t) == IF t \in BoolTypes THEN FALSE ELSE F32Zero

Init ==
    /\ dpt \in DPTs
    /\ val = ZeroValue(dpt)
    /\ op = "new"
    /\ data = <<>>
    /\ err = "nil"
    /\ out = <<>>

\* a value the caller built by conversion, e.g. DPT_5003(12.5)
InitPack ==
    /\ dpt \in ScaledTypes \cup FloatTypes
    /\ val \in PackInputs(dpt)
    /\ op = "new"
    /\ data = <<>>
    /\ err = "nil"
    /\ out = <<>>

\* d.Pack(): the receiver is passed by value
DoPack(bytes) ==
    /\ op' = "Pack"
    /\ out' = bytes
    /\ data' = <<>>
    /\ err' = "nil"
    /\ UNCHANGED <<dpt, val>>

\* d.Unpack(buf): r is the error returned and the value stored afterwards
DoUnpack(buf, r) ==
    /\ op' = "Unpack"
    /\ data' = buf
    /\ \E res \in {r} : err' = res.err /\ val' = res.val
    /\ out' = <<>>
    /\ UNCHANGED dpt

Pack_1001 == dpt = "1.001" /\ DoPack(DPT_1001_Pack(val))
Pack_1002 == dpt = "1.002" /\ DoPack(DPT_1002_Pack(val))
Pack_1003 == dpt = "1.003" /\ DoPack(DPT_1003_Pack(val))
Pack_1009 == dpt = "1.009" /\ DoPack(DPT_1009_Pack(val))
Pack_1010 == dpt = "1.010" /\ DoPack(DPT_1010_Pack(val))
Pack_5001 == dpt = "5.001" /\ DoPack(DPT_5001_Pack(val))
Pack_5003 == dpt = "5.003" /\ DoPack(DPT_5003_Pack(val))
Pack_5004 == dpt = "5.004" /\ DoPack(DPT_5004_Pack(val))
Pack_9001 == dpt = "9.001" /\ DoPack(DPT_9001_Pack(val))
Pack_9004 == dpt = "9.004" /\ DoPack(DPT_9004_Pack(val))

Unpack_1001 == dpt = "1.001" /\ \E buf \in Buffers(dpt) : DoUnpack(buf, DPT_1001_Unpack(val, buf))
Unpack_1002 == dpt = "1.002" /\ \E buf \in Buffers(dpt) : DoUnpack(buf, DPT_1002_Unpack(val, buf))
Unpack_1003 == dpt = "1.003" /\ \E buf \in Buffers(dpt) : DoUnpack(buf, DPT_1003_Unpack(val, buf))
Unpack_1009 == dpt = "1.009" /\ \E buf \in Buffers(dpt) : DoUnpack(buf, DPT_1009_Unpack(val, buf))
Unpack_1010 == dpt = "1.010" /\ \E buf \in Buffers(dpt) : DoUnpack(buf, DPT_1010_Unpack(val, buf))
Unpack_5001 == dpt = "5.001" /\ \E buf \in Buffers(dpt) : DoUnpack(buf, DPT_5001_Unpack(val, buf))
Unpack_5003 == dpt = "5.003" /\ \E buf \in Buffers(dpt) : DoUnpack(buf, DPT_5003_Unpack(val, buf))
Unpack_5004 == dpt = "5.004" /\ \E buf \in Buffers(dpt) : DoUnpack(buf, DPT_5004_Unpack(val, buf))
Unpack_9001 == dpt = "9.001" /\ \E buf \in Buffers(dpt) : DoUnpack(buf, DPT_9001_Unpack(val, buf))
Unpack_9004 == dpt = "9.004" /\ \E buf \in Buffers(dpt) : DoUnpack(buf, DPT_9004_Unpack(val, buf))

Next ==
    \/ Pack_1001 \/ Pack_1002 \/ Pack_1003 \/ Pack_1009 \/ Pack_1010
    \/ Pack_5001 \/ Pack_5003 \/ Pack_5004 \/ Pack_9001 \/ Pack_9004
    \/ Unpack_1001 \/ Unpack_1002 \/ Unpack_1003 \/ Unpack_1009 \/ Unpack_1010
    \/ Unpack_5001 \/ Unpack_5003 \/ Unpack_5004 \/ Unpack_9001 \/ Unpack_9004

Spec == Init /\ [][Next]_vars

\* Pack applied to values of the caller's choosing
NextPack == Pack_5001 \/ Pack_5003 \/ Pack_5004 \/ Pack_9001 \/ Pack_9004

SpecPack == InitPack /\ [][NextPack]_vars

----------------------------------------------------------------------------
(* properties                                                              *)

\* DatapointValue.Pack and DatapointValue.Unpack of a value of type t
PackOf(t, d) ==
    CASE t = "1.001" -> DPT_1001_Pack(d)
      [] t = "1.002" -> DPT_1002_Pack(d)
      [] t = "1.003" -> DPT_1003_Pack(d)
      [] t = "1.009" -> DPT_1009_Pack(d)
      [] t = "1.010" -> DPT_1010_Pack(d)
      [] t = "5.001" -> DPT_5001_Pack(d)
      [] t = "5.003" -> DPT_5003_Pack(d)
      [] t = "5.004" -> DPT_5004_Pack(d)
      [] t = "9.001" -> DPT_9001_Pack(d)
      [] t = "9.004" -> DPT_9004_Pack(d)

UnpackOf(t, d, buf) ==
    CASE t = "1.001" -> DPT_1001_Unpack(d, buf)
      [] t = "1.002" -> DPT_1002_Unpack(d, buf)
      [] t = "1.003" -> DPT_1003_Unpack(d, buf)
      [] t = "1.009" -> DPT_1009_Unpack(d, buf)
      [] t = "1.010" -> DPT_1010_Unpack(d, buf)
      [] t = "5.001" -> DPT_5001_Unpack(d, buf)
      [] t = "5.003" -> DPT_5003_Unpack(d, buf)
      [] t = "5.004" -> DPT_5004_Unpack(d, buf)
      [] t = "9.001" -> DPT_9001_Unpack(d, buf)
      [] t = "9.004" -> DPT_9004_Unpack(d, buf)

\* the declared semantic range of a numeric type
RangeLo(t) == IF t = "9.001" THEN F32_Minus273 ELSE F32Zero

RangeHi(t) ==
    CASE t = "5.001" -> F32_100
      [] t = "5.003" -> F32_360
      [] t = "5.004" -> F32_255
      [] t \in FloatTypes -> F32_670760

InRange(t, v) == F32Leq(RangeLo(t), v) /\ F32Leq(v, RangeHi(t))

Clip(t, v) ==
    IF F32Less(v, RangeLo(t)) THEN RangeLo(t)
    ELSE IF F32Less(RangeHi(t), v) THEN RangeHi(t)
    ELSE v

\* the integer q with v = q/4, for v on the quarter grid
QuarterOf(v) ==
    LET mag == IF v.exp >= -2 THEN v.man * 2^(v.exp + 2)
               ELSE v.man \div 2^(0 - (v.exp + 2))
    IN  IF v.neg THEN 0 - mag ELSE mag

\* the byte the scaling formula gives for q/4, rounded to nearest
RoundedByte(t, q) ==
    IF t = "5.001"
    THEN IF q <= 0 THEN 0
         ELSE IF q >= 400 THEN 255
         ELSE (2 * q * 255 + 400) \div 800
    ELSE LET c == IF q < 0 THEN 0 ELSE IF q > 1440 THEN 1440 ELSE q
         IN  (2 * c * 255 + 1440) \div 2880

\* |a - b| <= 360/255 = 24/17 for non-negative a and b, exactly: with l the
\* larger and s the smaller one, 17 * l - 24 <= 17 * s in units of 2^l.exp
WithinStep(a, b) ==
    LET l == IF F32MagLess(a, b) THEN b ELSE a
        s == IF F32MagLess(a, b) THEN a ELSE b
        k == l.exp - s.exp
    IN  IF l.man = 0 THEN TRUE
        ELSE 17 * l.man - 24 * 2^(0 - l.exp)
               <= (IF s.man = 0 \/ k >= 30 THEN 0 ELSE (17 * s.man) \div 2^k)

\* C1: Unpack of a buffer whose length differs from the type's wire width
\* returns a LengthError, for every type.
C1_LengthErrorSurfaced ==
    (op = "Unpack" /\ Len(data) # Width(dpt)) => err = "LengthError"

\* C2: for 9.001 and 9.004, Unpack of a two-byte buffer whose Float16 value
\* lies outside the declared range returns a RangeError.
C2_RangeErrorOutsideRange ==
    (op = "Unpack" /\ dpt \in FloatTypes /\ Len(data) = 2
        /\ ~InRange(dpt, unpackF16(data, F32Zero).val))
    => err = "RangeError"

\* C3: starting from the zero value, the stored value of a numeric type lies
\* within the declared range after any sequence of calls.
C3_StoredValueInRange ==
    dpt \in ScaledTypes \cup FloatTypes => InRange(dpt, val)

\* C4: an Unpack that returns an error leaves the stored value as it was.
C4_ErrorLeavesValue ==
    [][(op' = "Unpack" /\ err' # "nil") => val' = val]_vars

\* a failed Unpack on a value that an earlier Unpack had stored
C4_Witness ==
    /\ dpt = "9.001"
    /\ op = "Unpack"
    /\ err = "RangeError"
    /\ val # F32Zero

\* C5: Pack of 5.001 and 5.003 emits the scaled value rounded to nearest.
C5_PackRoundsToNearest ==
    (op = "Pack" /\ dpt \in {"5.001", "5.003"})
    => out = << RoundedByte(dpt, QuarterOf(val)) >>

\* C6: Pack of a numeric type emits the bytes that Pack of the value clipped
\* to the declared range emits, and as many bytes as the type is wide.
C6_PackClipsFirst ==
    (op = "Pack" /\ dpt \in ScaledTypes \cup FloatTypes)
    => /\ out = PackOf(dpt, Clip(dpt, val))
       /\ Len(out) = Width(dpt)

\* Pack of a temperature below the declared range
C6_Witness ==
    /\ dpt = "9.001"
    /\ op = "Pack"
    /\ F32Less(val, F32_Minus273)
    /\ out = <<161, 86>>

\* C7: for 5.003 and d in [0, 360], Unpack of Pack(d) succeeds and yields a
\* value within 360/255 of d.
C7_AngleRoundTripWithinStep ==
    (op = "Pack" /\ dpt = "5.003" /\ InRange(dpt, val))
    => LET r == DPT_5003_Unpack(F32Zero, out)
       IN  r.err = "nil" /\ WithinStep(val, r.val)

\* C8: for 5.004, Unpack of any single byte succeeds, and packing the stored
\* value and unpacking the result yields the stored value again.
C8_PercentU8RoundTrip ==
    (op = "Unpack" /\ dpt = "5.004" /\ Len(data) = 1)
    => /\ err = "nil"
       /\ LET r == DPT_5004_Unpack(F32Zero, DPT_5004_Pack(val))
          IN  r.err = "nil" /\ r.val = val

\* Unpack of the largest byte
C8_Witness ==
    /\ dpt = "5.004"
    /\ op = "Unpack"
    /\ data = <<255>>
    /\ val = F32_255

\* C9: for the boolean types, Pack emits the single byte 1 or 0, and Unpack
\* of that byte succeeds and stores the boolean whatever was stored before.
C9_BoolRoundTrip ==
    (op = "Pack" /\ dpt \in BoolTypes)
    => /\ out = << IF val THEN 1 ELSE 0 >>
       /\ \A old \in BOOLEAN :
            UnpackOf(dpt, old, out) = [err |-> "nil", val |-> val]

\* Pack of a stored TRUE
C9_Witness ==
    /\ dpt = "1.010"
    /\ op = "Pack"
    /\ val = TRUE
    /\ out = <<1>>

\* C10: for 5.001 and 5.003, Unpack of a single byte succeeds and a Pack that
\* follows it emits that byte again.
C10_ScaledWireRoundTrip ==
    [][(op = "Unpack" /\ dpt \in {"5.001", "5.003"} /\ Len(data) = 1
            /\ op' = "Pack")
        => (err = "nil" /\ out' = data)]_vars

====
